---- MODULE Spec2Model ----
(***************************************************************************)
(* Demand forecasting core of ToshiEna/demo11:                             *)
(*   src/models/__init__.py   DemandDataProcessor (record store, features) *)
(*   src/models/predictor.py  DemandPredictor (training, forecasting)      *)
(*   src/app.py               the two process-wide singletons and the      *)
(*                            request handlers that call into them         *)
(*                                                                         *)
(* Representation.                                                         *)
(*   number     a rational <<n, d>>, d > 0, in lowest terms (the ideal     *)
(*              value of the Python float); <<>> is NaN / None             *)
(*   timestamp  <<day, tod>>: day counts days from 2024-01-01, tod is the  *)
(*              time of day (0 midnight, 1 noon); tuples compare as the    *)
(*              datetimes do                                               *)
(*   DataFrame  [columns |-> sequence of names, rows |-> sequence of       *)
(*              functions from the column names to cell values]            *)
(*   a fitted sklearn object  [by, cols, ...]: who fitted it ("none" when  *)
(*              unfitted), the feature columns it was fitted on            *)
(*              (feature_names_in_), and its fitted parameters             *)
(***************************************************************************)
EXTENDS Integers, Sequences, FiniteSets, TLC

VARIABLES data, predictor, last, reloaded, pc, local

vars == <<data, predictor, last, reloaded, pc, local>>

----------------------------------------------------------------------------
(* Numbers *)

NaN == <<>>

Abs(n) == IF n < 0 THEN -n ELSE n

RECURSIVE GCD(_, _)
GCD(a, b) == IF b = 0 THEN a ELSE GCD(b, a % b)

Rat(n, d) ==
    LET g == GCD(Abs(n), d)
    IN  IF g = 0 THEN <<0, 1>> ELSE <<n \div g, d \div g>>

Num(n) == <<n, 1>>

IsNaN(x) == x = NaN

RAdd(x, y) == Rat(x[1] * y[2] + y[1] * x[2], x[2] * y[2])
RSub(x, y) == Rat(x[1] * y[2] - y[1] * x[2], x[2] * y[2])
RMul(x, y) == Rat(x[1] * y[1], x[2] * y[2])
RLe(x, y) == x[1] * y[2] <= y[1] * x[2]
RLt(x, y) == x[1] * y[2] < y[1] * x[2]
RMax(x, y) == IF RLe(x, y) THEN y ELSE x

\* a / b for b # 0, b possibly negative
RDiv(x, y) ==
    IF y[1] > 0 THEN Rat(x[1] * y[2], x[2] * y[1])
    ELSE Rat(-(x[1] * y[2]), x[2] * (-y[1]))

RECURSIVE RSum(_)
RSum(s) == IF s = <<>> THEN Num(0) ELSE RAdd(Head(s), RSum(Tail(s)))

----------------------------------------------------------------------------
(* Timestamps and the calendar fields pandas derives from them *)

TsLe(a, b) == a[1] < b[1] \/ (a[1] = b[1] /\ a[2] <= b[2])

MonthEnds == <<31, 60, 91, 121, 152, 182, 213, 244, 274, 305, 335, 366>>

YearOf(ts) == 2024 + (ts[1] \div 366)
MonthOf(ts) ==
    LET d == ts[1] % 366
    IN  CHOOSE m \in 1..12 :
            /\ d < MonthEnds[m]
            /\ \A k \in 1..(m - 1) : d >= MonthEnds[k]
DayOfWeek(ts) == ts[1] % 7
QuarterOf(ts) == ((MonthOf(ts) - 1) \div 3) + 1

----------------------------------------------------------------------------
(* DataFrames *)

Range(s) == {s[i] : i \in 1..Len(s)}

Indices(s) == [i \in 1..Len(s) |-> i]

AppendNew(s, x) == IF x \in Range(s) THEN s ELSE Append(s, x)

SetCol(row, c, v) == [k \in (DOMAIN row) \cup {c} |-> IF k = c THEN v ELSE row[k]]

\* pd.DataFrame(): no columns, no rows
EmptyFrame == [columns |-> <<>>, rows |-> <<>>]

\* DataFrame.empty
IsEmpty(df) == df.rows = <<>> \/ df.columns = <<>>

\* The keys of the dict load_data builds for each record, in order.  The free
\* text and category codes (desc, div, div_desc, dept, dept_desc) are carried by
\* the program and read only by the unique counts of get_statistics; they are
\* left out of the rows.
BaseColumns ==
    <<"sales_date", "store", "sku", "sold_qty", "act_sales", "price",
      "promotion", "promotion_discount", "weather_condition",
      "seasonality_factor", "date", "product_id", "demand_value">>

\* One dict of data_dicts: the legacy names are copies of the retail ones.
ToRow(item) ==
    [c \in Range(BaseColumns) |->
        CASE c = "date"         -> item.sales_date
          [] c = "product_id"   -> item.sku
          [] c = "demand_value" -> item.sold_qty
          [] OTHER              -> item[c]]

\* sort_values('sales_date'): ascending; rows with equal timestamps keep
\* their input order.
RECURSIVE InsertByDate(_, _)
InsertByDate(sorted, row) ==
    IF sorted = <<>> THEN <<row>>
    ELSE IF TsLe(sorted[Len(sorted)].sales_date, row.sales_date)
         THEN Append(sorted, row)
         ELSE Append(InsertByDate(SubSeq(sorted, 1, Len(sorted) - 1), row),
                     sorted[Len(sorted)])

RECURSIVE SortBySalesDate(_)
SortBySalesDate(rows) ==
    IF rows = <<>> THEN <<>>
    ELSE InsertByDate(SortBySalesDate(SubSeq(rows, 1, Len(rows) - 1)),
                      rows[Len(rows)])

\* DemandDataProcessor.load_data.  The frame is assigned to self.data before
\* the date columns are converted, so an empty list leaves an empty frame
\* behind and reports failure (KeyError on 'sales_date').
load_data(records) ==
    IF records = <<>>
    THEN [data |-> EmptyFrame, ok |-> FALSE]
    ELSE [data |-> [columns |-> BaseColumns,
                    rows |-> SortBySalesDate([i \in 1..Len(records) |->
                                                  ToRow(records[i])])],
          ok |-> TRUE]

----------------------------------------------------------------------------
(* Feature building: DemandDataProcessor.preprocess_data *)

RECURSIVE InsertNum(_, _)
InsertNum(sorted, x) ==
    IF sorted = <<>> THEN <<x>>
    ELSE IF RLe(sorted[Len(sorted)], x)
         THEN Append(sorted, x)
         ELSE Append(InsertNum(SubSeq(sorted, 1, Len(sorted) - 1), x),
                     sorted[Len(sorted)])

RECURSIVE SortNums(_)
SortNums(s) ==
    IF s = <<>> THEN <<>>
    ELSE InsertNum(SortNums(SubSeq(s, 1, Len(s) - 1)), s[Len(s)])

\* Series.median(): NaN skipped; NaN when nothing is left
Median(values) ==
    LET s == SortNums(SelectSeq(values, LAMBDA x : ~IsNaN(x)))
        n == Len(s)
    IN  IF n = 0 THEN NaN
        ELSE IF n % 2 = 1 THEN s[(n + 1) \div 2]
        ELSE RDiv(RAdd(s[n \div 2], s[(n \div 2) + 1]), Num(2))

FillNa(x, v) == IF IsNaN(x) THEN v ELSE x

\* act_sales / sold_qty.replace(0, nan)
DerivedPrice(row) ==
    IF IsNaN(row.act_sales) \/ IsNaN(row.sold_qty) \/ row.sold_qty = Num(0)
    THEN NaN
    ELSE RDiv(row.act_sales, row.sold_qty)

\* the price column after the first fillna
PriceStepOne(rows) ==
    [k \in 1..Len(rows) |-> FillNa(rows[k].price, DerivedPrice(rows[k]))]

\* the median of the price column as loaded, taken before the first fillna
PriceMedianAsLoaded(rows) == Median([k \in 1..Len(rows) |-> rows[k].price])

\* self.data['price'].median() in the second fillna: the column is the one
\* the first fillna left
PriceMedian(rows) == Median(PriceStepOne(rows))

\* positions of the rows of one store and SKU, in frame order
EntityPositions(rows, store, sku) ==
    SelectSeq(Indices(rows),
              LAMBDA j : rows[j].store = store /\ rows[j].sku = sku)

\* how many rows of the same store and SKU stand at or before position k
RankInEntity(rows, k) ==
    Cardinality({j \in 1..k : rows[j].store = rows[k].store
                             /\ rows[j].sku = rows[k].sku})

\* sold_qty.shift(lag) over the whole frame, not within the store and SKU
ShiftedFrame(rows, k, lag) ==
    IF k - lag >= 1 THEN rows[k - lag].sold_qty ELSE NaN

\* store_sku_data['sold_qty'].shift(lag), at the row in position k
Shifted(rows, k, lag) ==
    LET pos == EntityPositions(rows, rows[k].store, rows[k].sku)
        i == RankInEntity(rows, k)
    IN  IF i - lag >= 1 THEN rows[pos[i - lag]].sold_qty ELSE NaN

\* rolling(window, min_periods=1).mean(): the mean of the observations there
\* are, before the window is full
RollingMeanPartial(rows, k, window) ==
    LET pos == EntityPositions(rows, rows[k].store, rows[k].sku)
        i == RankInEntity(rows, k)
        m == IF i < window THEN i ELSE window
        win == [j \in 1..m |-> rows[pos[i - m + j]].sold_qty]
    IN  RDiv(RSum(win), Num(m))

\* store_sku_data['sold_qty'].rolling(window).mean(), at the row in position k
RollingMean(rows, k, window) ==
    LET pos == EntityPositions(rows, rows[k].store, rows[k].sku)
        i == RankInEntity(rows, k)
        win == [j \in 1..window |-> rows[pos[i - window + j]].sold_qty]
    IN  IF i < window THEN NaN
        ELSE IF \E j \in 1..window : IsNaN(win[j]) THEN NaN
        ELSE RDiv(RSum(win), Num(window))

CalendarColumns == <<"year", "month", "day_of_week", "quarter">>

LagColumns ==
    <<"sold_qty_lag_1", "sold_qty_lag_7", "sold_qty_ma_7", "sold_qty_lag_30">>

RECURSIVE AppendAllNew(_, _)
AppendAllNew(s, t) ==
    IF t = <<>> THEN s ELSE AppendAllNew(AppendNew(s, Head(t)), Tail(t))

\* The frame preprocess_data leaves in self.data.
preprocess_data(df) ==
    IF IsEmpty(df) THEN df
    ELSE
    LET rows0 == df.rows
        n == Len(rows0)
        \* first fill: price from sales and quantity
        price1 == PriceStepOne(rows0)
        \* second fill: the median of the column after the first fill
        med == PriceMedian(rows0)
        NewRow(k) ==
            LET r == rows0[k]
            IN  [c \in (DOMAIN r) \cup Range(CalendarColumns) \cup Range(LagColumns) |->
                  CASE c = "year"               -> Num(YearOf(r.sales_date))
                    [] c = "month"              -> Num(MonthOf(r.sales_date))
                    [] c = "day_of_week"        -> Num(DayOfWeek(r.sales_date))
                    [] c = "quarter"            -> Num(QuarterOf(r.sales_date))
                    [] c = "price"              -> FillNa(price1[k], med)
                    [] c = "promotion"          -> FillNa(r.promotion, Num(0))
                    [] c = "promotion_discount" -> FillNa(r.promotion_discount, Num(0))
                    [] c = "seasonality_factor" -> FillNa(r.seasonality_factor, Num(1))
                    [] c = "sold_qty_lag_1"     -> Shifted(rows0, k, 1)
                    [] c = "sold_qty_lag_7"     -> Shifted(rows0, k, 7)
                    [] c = "sold_qty_ma_7"      -> RollingMean(rows0, k, 7)
                    [] c = "sold_qty_lag_30"    -> Shifted(rows0, k, 30)
                    [] OTHER                    -> r[c]]
    IN  [columns |-> AppendAllNew(AppendAllNew(df.columns, CalendarColumns), LagColumns),
         rows |-> [k \in 1..n |-> NewRow(k)]]

----------------------------------------------------------------------------
(* DemandDataProcessor.get_statistics *)

\* Series.min() and Series.max() of a column of timestamps
MinTs(rows) ==
    CHOOSE t \in {rows[k].sales_date : k \in 1..Len(rows)} :
        \A k \in 1..Len(rows) : TsLe(t, rows[k].sales_date)

MaxTs(rows) ==
    CHOOSE t \in {rows[k].sales_date : k \in 1..Len(rows)} :
        \A k \in 1..Len(rows) : TsLe(rows[k].sales_date, t)

\* get_statistics(): {} for the empty frame; of the entries, the counts and
\* the date range are modelled, the sums and moments are not.
get_statistics(df) ==
    IF IsEmpty(df) THEN <<>>
    ELSE [total_records |-> Len(df.rows),
          unique_stores |-> Cardinality({df.rows[k].store : k \in 1..Len(df.rows)}),
          unique_skus   |-> Cardinality({df.rows[k].sku : k \in 1..Len(df.rows)}),
          date_range    |-> [start |-> MinTs(df.rows), end |-> MaxTs(df.rows)]]

----------------------------------------------------------------------------
(* DemandPredictor: state *)

\* the keys of self.models, in insertion order
ModelNames == <<"random_forest", "gradient_boosting", "linear_regression">>

\* an estimator that was never fitted
Unfitted == [by |-> "none", cols |-> <<>>, w |-> [b |-> 0, s |-> 0]]

\* DemandPredictor.__init__
NewPredictor ==
    [models          |-> [m \in Range(ModelNames) |-> Unfitted],
     active_model    |-> "random_forest",
     scaler          |-> [by |-> "none", cols |-> <<>>],
     label_encoders  |-> <<>>,
     is_trained      |-> FALSE,
     feature_columns |-> <<>>,
     model_metrics   |-> <<>>]

----------------------------------------------------------------------------
(* DemandPredictor.prepare_features *)

\* Python None in a column of strings
NoneValue == "<None>"

\* Series.astype(str), one cell of a column of strings
AsStr(v) == IF v = NoneValue THEN "None" ELSE v

\* The strings of the model in the order Python sorts them (by code point).
StrOrder == <<"A", "B", "C", "None", "rainy", "sunny", "unknown">>

\* sorted(set(values)): the classes_ of a LabelEncoder just fitted
SortedUnique(values) == SelectSeq(StrOrder, LAMBDA x : x \in Range(values))

\* LabelEncoder.transform on an object array: a dict built by enumerating
\* classes_, so a class listed twice takes its last position; codes count from 0.
CodeOf(classes, v) ==
    (CHOOSE i \in 1..Len(classes) :
        classes[i] = v /\ \A j \in (i + 1)..Len(classes) : classes[j] # v) - 1

CategoricalCols == <<"product_id", "weather_condition">>

\* One pass of the loop over categorical_cols: the encoders after it and the
\* codes of the column (a sequence, one number per row).
EncodeCol(encoders, df, col) ==
    LET strs == [k \in 1..Len(df.rows) |-> AsStr(df.rows[k][col])]
    IN  IF col \notin Range(df.columns)
        THEN [encoders |-> encoders, codes |-> <<>>]
        ELSE IF col \notin DOMAIN encoders
        THEN LET classes == SortedUnique(strs)
             IN  [encoders |-> [c \in (DOMAIN encoders) \cup {col} |->
                                   IF c = col THEN classes ELSE encoders[c]],
                  codes |-> [k \in 1..Len(strs) |-> Num(CodeOf(classes, strs[k]))]]
        ELSE LET known == Range(encoders[col])
                 mapped == [k \in 1..Len(strs) |->
                               IF strs[k] \in known THEN strs[k] ELSE "unknown"]
                 classes == IF "unknown" \in known THEN encoders[col]
                            ELSE Append(encoders[col], "unknown")
             IN  [encoders |-> [encoders EXCEPT ![col] = classes],
                  codes |-> [k \in 1..Len(strs) |-> Num(CodeOf(classes, mapped[k]))]]

\* the names of the model's columns that start with 'demand_lag_'
DemandLagNames == {"demand_lag_1", "demand_lag_7", "demand_lag_30"}

FeatureCols(columns) ==
    <<"year", "month", "day_of_week", "quarter",
      "price", "promotion", "seasonality_factor", "product_id">>
    \o SelectSeq(columns, LAMBDA c : c \in DemandLagNames)
    \o (IF "weather_condition" \in Range(columns) THEN <<"weather_condition">> ELSE <<>>)

\* prepare_features(data): the predictor after the call (the encoders and
\* feature_columns are written) and the feature frame X it returns.
prepare_features(p, df) ==
    IF IsEmpty(df) THEN [p |-> p, X |-> df]
    ELSE
    LET e1 == EncodeCol(p.label_encoders, df, "product_id")
        e2 == EncodeCol(e1.encoders, df, "weather_condition")
        available == SelectSeq(FeatureCols(df.columns),
                               LAMBDA c : c \in Range(df.columns))
        XRow(k) ==
            [c \in Range(available) |->
                CASE c = "product_id"        -> e1.codes[k]
                  [] c = "weather_condition" -> e2.codes[k]
                  [] OTHER                   -> FillNa(df.rows[k][c], Num(0))]
    IN  [p |-> [p EXCEPT !.label_encoders = e2.encoders,
                         !.feature_columns = available],
         X |-> [columns |-> available,
                rows |-> [k \in 1..Len(df.rows) |-> XRow(k)]]]

----------------------------------------------------------------------------
(* DemandPredictor.train *)

MinTrainingRows == 10

\* the first return of train
InvalidTrainingData(df) == IsEmpty(df) \/ "demand_value" \notin Range(df.columns)

\* valid_indices = ~y.isna(): the positions kept
ValidIndices(df) ==
    SelectSeq(Indices(df.rows), LAMBDA k : ~IsNaN(df.rows[k].demand_value))

\* len(X) < 9: the threshold off by one
InsufficientDataOff(n) == n < MinTrainingRows - 1

\* len(X) < 10
InsufficientData(n) == n < MinTrainingRows

\* train_test_split(test_size=0.2): ceil(0.2 * n) rows are held out
TestSamples(n) == (n + 4) \div 5

\* self.scaler.fit_transform(X_train): the scaler is refitted in place
FitScaler(p, cols, by) == [p EXCEPT !.scaler = [by |-> by, cols |-> cols]]

\* model.fit(...), in place.  w stands for the fitted parameters.  The linear
\* model is fitted on the array the scaler returns, the ensembles on the frame.
FitModel(p, name, cols, by, w) ==
    [p EXCEPT !.models[name] = [by |-> by, cols |-> cols, w |-> w]]

\* max(results.keys(), key=lambda k: results[k]['r2']): the first key, in
\* insertion order, whose R2 no other key exceeds
RECURSIVE MaxByR2(_, _, _)
MaxByR2(results, names, best) ==
    IF names = <<>> THEN best
    ELSE IF results[Head(names)].r2 > results[best].r2
         THEN MaxByR2(results, Tail(names), Head(names))
         ELSE MaxByR2(results, Tail(names), best)

\* the last key, in insertion order, whose R2 no other key exceeds
BestModelLastWins(results) ==
    ModelNames[CHOOSE i \in 1..Len(ModelNames) :
        /\ \A j \in 1..Len(ModelNames) :
               results[ModelNames[j]].r2 <= results[ModelNames[i]].r2
        /\ \A j \in (i + 1)..Len(ModelNames) :
               results[ModelNames[j]].r2 < results[ModelNames[i]].r2]

BestModel(results) == MaxByR2(results, Tail(ModelNames), Head(ModelNames))

\* one entry of results; mae, mse and rmse are not modelled, by names the
\* training call that computed the entry
Metrics(r2, by) == [r2 |-> r2, by |-> by]

ErrInvalid == "Invalid training data"
ErrInsufficient == "Insufficient data for training (minimum 10 records required)"

TrainError(msg) ==
    [ok |-> FALSE, error |-> msg, active_model |-> "",
     training_samples |-> 0, test_samples |-> 0]

\* Lines 93-107: the checks and prepare_features.  error is "" when the
\* call goes on to fit; n is len(X) after the rows without a target are dropped.
train_prepare(p, df) ==
    IF InvalidTrainingData(df)
    THEN [p |-> p, error |-> ErrInvalid, cols |-> <<>>, n |-> 0]
    ELSE LET pf == prepare_features(p, df)
             n == Len(ValidIndices(df))
         IN  [p |-> pf.p,
              error |-> IF InsufficientData(n) THEN ErrInsufficient ELSE "",
              cols |-> pf.X.columns, n |-> n]

\* Lines 142-145: the three assignments that publish a training, one by one
SelectActive(p, results) == [p EXCEPT !.active_model = BestModel(results)]
StoreMetrics(p, results) == [p EXCEPT !.model_metrics = results]
MarkTrained(p) == [p EXCEPT !.is_trained = TRUE]

Publish(p, results) == MarkTrained(StoreMetrics(SelectActive(p, results), results))

\* what train returns when it succeeds
TrainReport(results, n) ==
    [ok |-> TRUE, error |-> "", active_model |-> BestModel(results),
     training_samples |-> n - TestSamples(n), test_samples |-> TestSamples(n)]

\* Lines 109-154, after train_prepare found nothing wrong.  fit.w[m] are the
\* parameters the fit of model m arrives at and fit.r2[m] its score on the
\* held-out rows; by names the calling thread.
train_fit(pre, by, fit) ==
    LET p1 == FitScaler(pre.p, pre.cols, by)
        p2 == FitModel(p1, ModelNames[1], pre.cols, by, fit.w[ModelNames[1]])
        p3 == FitModel(p2, ModelNames[2], pre.cols, by, fit.w[ModelNames[2]])
        p4 == FitModel(p3, ModelNames[3], pre.cols, by, fit.w[ModelNames[3]])
        results == [m \in Range(ModelNames) |-> Metrics(fit.r2[m], by)]
    IN  [p |-> Publish(p4, results), ret |-> TrainReport(results, pre.n)]

\* train(data), run to completion
train_finish(pre, by, fit) ==
    IF pre.error # "" THEN [p |-> pre.p, ret |-> TrainError(pre.error)]
    ELSE train_fit(pre, by, fit)

train(p, df, by, fit) == train_finish(train_prepare(p, df), by, fit)

----------------------------------------------------------------------------
(* DemandPredictor.predict *)

\* pd.date_range(start, end, freq='D'): start, start + 1 day, ... up to end
DateRange(start, end) ==
    LET last_day == IF start[2] <= end[2] THEN end[1] ELSE end[1] - 1
    IN  IF last_day < start[1] THEN <<>>
        ELSE [i \in 1..(last_day - start[1] + 1) |-> <<start[1] + i - 1, start[2]>>]

\* data[data['product_id'] == request.product_id]
ProductData(df, product_id) ==
    [columns |-> df.columns,
     rows |-> SelectSeq(df.rows, LAMBDA r : r.product_id = product_id)]

\* product_data.empty is false
HasProduct(df, product_id) ==
    \E k \in 1..Len(df.rows) : df.rows[k].product_id = product_id

\* product_data.iloc[:1], the oldest record, in place of the latest
OldestData(product_data, pred_date) ==
    LET r == product_data.rows[1]
    IN  [columns |-> AppendAllNew(product_data.columns, <<"date">> \o CalendarColumns),
         rows |-> <<[c \in (DOMAIN r) \cup {"date"} \cup Range(CalendarColumns) |->
                      CASE c = "date"        -> pred_date
                        [] c = "year"        -> Num(YearOf(pred_date))
                        [] c = "month"       -> Num(MonthOf(pred_date))
                        [] c = "day_of_week" -> Num(DayOfWeek(pred_date))
                        [] c = "quarter"     -> Num(QuarterOf(pred_date))
                        [] OTHER             -> r[c]]>>]

\* product_data.iloc[-1:] with the date and the calendar fields of pred_date
LatestData(product_data, pred_date) ==
    LET r == product_data.rows[Len(product_data.rows)]
    IN  [columns |-> AppendAllNew(product_data.columns, <<"date">> \o CalendarColumns),
         rows |-> <<[c \in (DOMAIN r) \cup {"date"} \cup Range(CalendarColumns) |->
                      CASE c = "date"        -> pred_date
                        [] c = "year"        -> Num(YearOf(pred_date))
                        [] c = "month"       -> Num(MonthOf(pred_date))
                        [] c = "day_of_week" -> Num(DayOfWeek(pred_date))
                        [] c = "quarter"     -> Num(QuarterOf(pred_date))
                        [] OTHER             -> r[c]]>>]

\* What a fitted estimator answers for one feature row: a fixed function of
\* the row, here intercept + slope * (sum of the features).
Output(m, X) ==
    RAdd(Num(m.w.b),
         RMul(Num(m.w.s), RSum([i \in 1..Len(X.columns) |-> X.rows[1][X.columns[i]]])))

\* sklearn refuses an unfitted estimator (NotFittedError) and input whose
\* feature names differ from those seen in fit (ValueError); an estimator
\* fitted on a bare array checks the number of features only.
RejectsFrame(est, X) == est.by = "none" \/ est.cols # X.columns
RejectsArray(est, X) == est.by = "none" \/ Len(est.cols) # Len(X.columns)

\* Lines 193-199: the active model's answer for X_pred, or the exception.
RunModel(p, X) ==
    LET model == p.models[p.active_model]
        linear == p.active_model = "linear_regression"
    IN  [exc |-> IF linear THEN RejectsFrame(p.scaler, X) \/ RejectsArray(model, X)
                 ELSE RejectsFrame(model, X),
         prediction |-> Output(model, X),
         model_by |-> model.by,
         scaler_by |-> IF linear THEN p.scaler.by ELSE model.by]

\* self.model_metrics.get(self.active_model, {}).get('r2')
ModelAccuracy(p) ==
    IF p.active_model \in DOMAIN p.model_metrics
    THEN <<p.model_metrics[p.active_model].r2>> ELSE <<>>

MetricsBy(p) ==
    IF p.active_model \in DOMAIN p.model_metrics
    THEN p.model_metrics[p.active_model].by ELSE "none"

\* Lines 201-211 without the two max(0, ...)
MakeResultUnclamped(p, product_id, pred_date, run) ==
    LET prediction == run.prediction
        confidence_interval == RMul(Rat(1, 10), prediction)
    IN  [product_id       |-> product_id,
         prediction_date  |-> pred_date,
         predicted_demand |-> prediction,
         confidence_lower |-> RSub(prediction, confidence_interval),
         confidence_upper |-> RAdd(prediction, confidence_interval),
         model_accuracy   |-> ModelAccuracy(p),
         read_from        |-> [model |-> run.model_by, scaler |-> run.scaler_by,
                               metrics |-> MetricsBy(p)]]

\* Lines 201-211.  read_from names the training calls whose model, scaler and
\* metrics this forecast was computed from.
MakeResult(p, product_id, pred_date, run) ==
    LET prediction == run.prediction
        confidence_interval == RMul(Rat(1, 10), prediction)
    IN  [product_id       |-> product_id,
         prediction_date  |-> pred_date,
         predicted_demand |-> RMax(Num(0), prediction),
         confidence_lower |-> RMax(Num(0), RSub(prediction, confidence_interval)),
         confidence_upper |-> RAdd(prediction, confidence_interval),
         model_accuracy   |-> ModelAccuracy(p),
         read_from        |-> [model |-> run.model_by, scaler |-> run.scaler_by,
                               metrics |-> MetricsBy(p)]]

\* The loop over prediction_dates from date i on, with the results so far.
RECURSIVE PredictLoop(_, _, _, _, _, _)
PredictLoop(p, product_id, product_data, dates, i, results) ==
    IF i > Len(dates) THEN [p |-> p, results |-> results, caught |-> FALSE]
    ELSE
    LET pf == prepare_features(p, LatestData(product_data, dates[i]))
        run == RunModel(pf.p, pf.X)
    IN  IF run.exc THEN [p |-> pf.p, results |-> <<>>, caught |-> TRUE]
        ELSE PredictLoop(pf.p, product_id, product_data, dates, i + 1,
                         Append(results, MakeResult(pf.p, product_id, dates[i], run)))

\* Lines 165-219, the try and its handler: caught tells that a statement
\* raised (data['product_id'] on a frame without the column is a KeyError) and
\* the handler returned [] in its place.
predict_try(p, request, df) ==
    IF "product_id" \notin Range(df.columns)
    THEN [p |-> p, results |-> <<>>, caught |-> TRUE]
    ELSE IF ~HasProduct(df, request.product_id)
    THEN [p |-> p, results |-> <<>>, caught |-> FALSE]
    ELSE PredictLoop(p, request.product_id, ProductData(df, request.product_id),
                     DateRange(request.start_date, request.end_date), 1, <<>>)

\* the try of predict without its except clause
predict_body_unhandled(p, request, df) ==
    LET r == predict_try(p, request, df)
    IN  [p |-> r.p, results |-> r.results, caught |-> FALSE, raised |-> r.caught]

\* Lines 164-219: predict once the trained flag was found set.  caught: an
\* exception was raised inside and swallowed by the handler (the call then
\* returns []); raised: one reached the caller.
predict_body(p, request, df) ==
    predict_try(p, request, df) @@ [raised |-> FALSE]

\* predict without the check of the trained flag
predict_unguarded(p, request, df) == predict_body(p, request, df)

\* predict(request, data), run to completion
predict(p, request, df) ==
    IF ~p.is_trained
    THEN [p |-> p, results |-> <<>>, caught |-> FALSE, raised |-> FALSE]
    ELSE predict_body(p, request, df)

----------------------------------------------------------------------------
(* Inputs *)

\* One DemandData; promotion, promotion_discount and seasonality_factor are
\* left unset (None).
Rec(day, store, sku, qty, sales, price, weather) ==
    [sales_date |-> <<day, 0>>, store |-> store, sku |-> sku,
     sold_qty |-> qty, act_sales |-> sales, price |-> price,
     promotion |-> NaN, promotion_discount |-> NaN,
     weather_condition |-> weather, seasonality_factor |-> NaN]

\* 10 records of two SKUs in one store, newest first
TenRecords ==
    [i \in 1..10 |->
        Rec(10 - i, "S1", IF i % 2 = 0 THEN "A" ELSE "B",
            Num(i), Num(2 * i), Num(2), "sunny")]

\* the same 10 records, one of them without a quantity: 9 valid rows
NineValid ==
    [i \in 1..10 |-> IF i = 4 THEN [TenRecords[i] EXCEPT !.sold_qty = NaN]
                     ELSE TenRecords[i]]

\* 12 records of two SKUs in two stores, oldest first; some prices unset,
\* one quantity zero
TwelveRecords ==
    [i \in 1..12 |->
        Rec(i + 2, IF i % 3 = 0 THEN "S2" ELSE "S1", IF i % 2 = 0 THEN "B" ELSE "C",
            Num(i - 1), Num(5 * (i - 1)), IF i % 4 = 1 THEN NaN ELSE Num(i),
            IF i % 2 = 0 THEN "rainy" ELSE NoneValue)]

RecordSets == {<<>>, NineValid, TenRecords, TwelveRecords}

\* the furthest day a request reaches, counted from the first request day
MaxHorizon == 1

TimesOfDay == {0, 1}

\* A request starts on the first request day, at midnight or at noon, and
\* ends at midnight up to MaxHorizon days later.
Requests ==
    [product_id : {"A", "C"},
     start_date : {<<30, t>> : t \in TimesOfDay},
     end_date : {<<d, 0>> : d \in 30..(30 + MaxHorizon)}]

NoRequest == [product_id |-> "", start_date |-> <<0, 0>>, end_date |-> <<0, 0>>]

\* What fitting may arrive at.  A tree ensemble answers with averages of the
\* quantities it was fitted on; the linear model extrapolates, and below zero
\* for small enough features.
ForestWeights == {[b |-> 7, s |-> 0]}
BoostingWeights == {[b |-> 0, s |-> 1]}
LinearWeights == {[b |-> -2042, s |-> 1]}
WeightsOf(m) ==
    CASE m = "random_forest"     -> ForestWeights
      [] m = "gradient_boosting" -> BoostingWeights
      [] OTHER                   -> LinearWeights

\* held-out R2, in tenths
R2Values == {0, 5}

Fits ==
    {f \in [w : [Range(ModelNames) -> ForestWeights \cup BoostingWeights \cup LinearWeights],
            r2 : [Range(ModelNames) -> R2Values]] :
        \A m \in Range(ModelNames) : f.w[m] \in WeightsOf(m)}

----------------------------------------------------------------------------
(* The calls, each run to completion on the calling thread *)

Idle == [t \in {"t1", "t2", "p1"} |-> "idle"]

NoLocal == [t \in {"t1", "t2", "p1"} |-> <<>>]

\* What the last call returned.  loaded remembers the records the most recent
\* load_data was given; stats and bulk are the mappings get_statistics and
\* bulk_predict return.
Outcome(op, ok, error, results, caught, raised, request) ==
    [op |-> op, ok |-> ok, error |-> error, results |-> results,
     caught |-> caught, raised |-> raised, request |-> request,
     loaded |-> last.loaded, stats |-> <<>>, bulk |-> <<>>]

\* before any call
NoOutcome(op) ==
    [op |-> op, ok |-> TRUE, error |-> "", results |-> <<>>,
     caught |-> FALSE, raised |-> FALSE, request |-> NoRequest,
     loaded |-> <<>>, stats |-> <<>>, bulk |-> <<>>]

Init ==
    /\ data = EmptyFrame
    /\ predictor = NewPredictor
    /\ last = NoOutcome("init")
    /\ reloaded = FALSE
    /\ pc = Idle
    /\ local = NoLocal

\* load_data that adds the records to those already held
LoadDataAppend(records) ==
    LET r == load_data(records)
    IN  /\ data' = IF IsEmpty(data) \/ ~r.ok THEN r.data
                   ELSE [columns |-> data.columns,
                         rows |-> data.rows \o r.data.rows]
        /\ last' = [Outcome("load_data", r.ok, "", <<>>, ~r.ok, FALSE, NoRequest)
                        EXCEPT !.loaded = records]
        /\ reloaded' = TRUE
        /\ UNCHANGED <<predictor, pc, local>>

\* data_processor.load_data(records)
LoadData(records) ==
    LET r == load_data(records)
    IN  /\ data' = r.data
        /\ last' = [Outcome("load_data", r.ok, "", <<>>, ~r.ok, FALSE, NoRequest)
                        EXCEPT !.loaded = records]
        /\ reloaded' = TRUE
        /\ UNCHANGED <<predictor, pc, local>>

\* data_processor.preprocess_data()
PreprocessData ==
    /\ data' = preprocess_data(data)
    /\ last' = Outcome("preprocess_data", TRUE, "", <<>>, FALSE, FALSE, NoRequest)
    /\ UNCHANGED <<predictor, reloaded, pc, local>>

\* upload_data, from the parsed records on: load, and preprocess when the
\* load succeeded
UploadData(records) ==
    LET r == load_data(records)
    IN  /\ data' = IF r.ok THEN preprocess_data(r.data) ELSE r.data
        /\ last' = [Outcome("upload_data", r.ok, "", <<>>, ~r.ok, FALSE, NoRequest)
                        EXCEPT !.loaded = records]
        /\ reloaded' = TRUE
        /\ UNCHANGED <<predictor, pc, local>>

\* predictor.train(data_processor.data)
Train ==
    LET pre == train_prepare(predictor, data)
    IN  \E fit \in Fits :
            LET r == train_finish(pre, "main", fit)
            IN  /\ predictor' = r.p
                /\ last' = Outcome("train", r.ret.ok, r.ret.error, <<>>,
                                   FALSE, FALSE, NoRequest)
                /\ reloaded' = (reloaded /\ ~r.ret.ok)
                /\ UNCHANGED <<data, pc, local>>

\* predictor.predict(request, data_processor.data)
Predict(request) ==
    LET r == predict(predictor, request, data)
    IN  /\ predictor' = r.p
        /\ last' = Outcome("predict", TRUE, "", r.results, r.caught, r.raised, request)
        /\ UNCHANGED <<data, reloaded, pc, local>>

\* data_processor.get_statistics()
GetStatistics ==
    /\ last' = [Outcome("get_statistics", TRUE, "", <<>>, FALSE, FALSE, NoRequest)
                    EXCEPT !.stats = get_statistics(data)]
    /\ UNCHANGED <<data, predictor, reloaded, pc, local>>

Next ==
    \/ \E records \in RecordSets : LoadData(records)
    \/ PreprocessData
    \/ \E records \in RecordSets : UploadData(records)
    \/ Train
    \/ \E request \in Requests : Predict(request)

Spec == Init /\ [][Next]_vars

----------------------------------------------------------------------------
(* The same calls on the threads of the server, one statement at a time.    *)
(* app.run serves each request on a thread of its own and predictor and     *)
(* data_processor are module globals, so the statements of two calls        *)
(* interleave.  t1 and t2 serve /api/model/train, p1 serves                 *)
(* /api/predictions.  The server starts a thread for each request, so a     *)
(* thread goes from "idle" (request not yet arrived) to "done".             *)

Trainers == {"t1", "t2"}

Predictors == {"p1"}

FitLabels == <<"fit1", "fit2", "fit3">>

\* the labels at which a training call has written the scaler and has writes
\* to the models, the active model or the metrics still to do
Training == {"fit1", "fit2", "fit3", "select", "store", "mark"}

\* the fit the main thread arrived at before the server took requests
FirstFit ==
    [w |-> [m \in Range(ModelNames) |-> CHOOSE x \in WeightsOf(m) : TRUE],
     r2 |-> [m \in Range(ModelNames) |-> IF m = "random_forest" THEN 5 ELSE 0]]

\* the fits of the concurrent trainings: the linear model scores best
LaterFits == {f \in Fits : f.r2 = [m \in Range(ModelNames) |->
                                      IF m = "linear_regression" THEN 5 ELSE 0]}

ServedRequests == {r \in Requests : r.product_id = "A" /\ r.start_date = <<30, 0>>}

ResultsOf(t) == [m \in Range(ModelNames) |-> Metrics(local[t].fit.r2[m], t)]

Goto(t, label) == pc' = [pc EXCEPT ![t] = label]

InitServing ==
    /\ data = preprocess_data(load_data(TenRecords).data)
    /\ predictor = train(NewPredictor, preprocess_data(load_data(TenRecords).data),
                         "main", FirstFit).p
    /\ last = [NoOutcome("train") EXCEPT !.loaded = TenRecords]
    /\ reloaded = FALSE
    /\ pc = Idle
    /\ local = NoLocal

\* train, lines 93-107
TrainBegin(t) ==
    /\ pc[t] = "idle"
    /\ LET pre == train_prepare(predictor, data)
       IN  \E fit \in LaterFits :
               /\ predictor' = pre.p
               /\ IF pre.error # ""
                  THEN /\ last' = Outcome("train", FALSE, pre.error, <<>>,
                                          FALSE, FALSE, NoRequest)
                       /\ Goto(t, "done")
                       /\ UNCHANGED local
                  ELSE /\ Goto(t, "scale")
                       /\ local' = [local EXCEPT ![t] =
                                       [cols |-> pre.cols, n |-> pre.n, fit |-> fit]]
                       /\ UNCHANGED last
    /\ UNCHANGED <<data, reloaded>>

\* train, lines 115-116
TrainScale(t) ==
    /\ pc[t] = "scale"
    /\ predictor' = FitScaler(predictor, local[t].cols, t)
    /\ Goto(t, "fit1")
    /\ UNCHANGED <<data, last, reloaded, local>>

\* train, lines 120-139, one pass of the loop
TrainFit(t) ==
    \E i \in 1..3 :
        /\ pc[t] = FitLabels[i]
        /\ predictor' = FitModel(predictor, ModelNames[i], local[t].cols, t,
                                 local[t].fit.w[ModelNames[i]])
        /\ Goto(t, IF i < 3 THEN FitLabels[i + 1] ELSE "select")
        /\ UNCHANGED <<data, last, reloaded, local>>

\* train, lines 142-143
TrainSelect(t) ==
    /\ pc[t] = "select"
    /\ predictor' = SelectActive(predictor, ResultsOf(t))
    /\ Goto(t, "store")
    /\ UNCHANGED <<data, last, reloaded, local>>

\* train, line 144
TrainStore(t) ==
    /\ pc[t] = "store"
    /\ predictor' = StoreMetrics(predictor, ResultsOf(t))
    /\ Goto(t, "mark")
    /\ UNCHANGED <<data, last, reloaded, local>>

\* train, lines 145-154
TrainMark(t) ==
    /\ pc[t] = "mark"
    /\ predictor' = MarkTrained(predictor)
    /\ last' = Outcome("train", TRUE, "", <<>>, FALSE, FALSE, NoRequest)
    /\ reloaded' = FALSE
    /\ Goto(t, "done")
    /\ local' = [local EXCEPT ![t] = <<>>]
    /\ UNCHANGED data

Return(t, request, results, caught) ==
    /\ last' = Outcome("predict", TRUE, "", results, caught, FALSE, request)
    /\ Goto(t, "done")
    /\ local' = [local EXCEPT ![t] = <<>>]

\* predict, lines 161-176
PredictBegin(t) ==
    /\ pc[t] = "idle"
    /\ \E request \in ServedRequests :
        LET product_data == ProductData(data, request.product_id)
            dates == DateRange(request.start_date, request.end_date)
        IN  IF ~predictor.is_trained
            THEN Return(t, request, <<>>, FALSE)
            ELSE IF "product_id" \notin Range(data.columns)
            THEN Return(t, request, <<>>, TRUE)
            ELSE IF IsEmpty(product_data) \/ dates = <<>>
            THEN Return(t, request, <<>>, FALSE)
            ELSE /\ Goto(t, "prepare")
                 /\ local' = [local EXCEPT ![t] =
                                 [request |-> request, product_data |-> product_data,
                                  dates |-> dates, i |-> 1, results |-> <<>>,
                                  X |-> EmptyFrame]]
                 /\ UNCHANGED last
    /\ UNCHANGED <<data, predictor, reloaded>>

\* predict, lines 182-190
PredictPrepare(t) ==
    /\ pc[t] = "prepare"
    /\ LET pf == prepare_features(predictor,
                     LatestData(local[t].product_data, local[t].dates[local[t].i]))
       IN  /\ predictor' = pf.p
           /\ local' = [local EXCEPT ![t].X = pf.X]
    /\ Goto(t, "run")
    /\ UNCHANGED <<data, last, reloaded>>

\* predict, lines 193-213
PredictRun(t) ==
    /\ pc[t] = "run"
    /\ LET l == local[t]
           run == RunModel(predictor, l.X)
           results == Append(l.results,
                             MakeResult(predictor, l.request.product_id, l.dates[l.i], run))
       IN  IF run.exc THEN Return(t, l.request, <<>>, TRUE)
           ELSE IF l.i = Len(l.dates) THEN Return(t, l.request, results, FALSE)
           ELSE /\ Goto(t, "prepare")
                /\ local' = [local EXCEPT ![t].i = l.i + 1, ![t].results = results]
                /\ UNCHANGED last
    /\ UNCHANGED <<data, predictor, reloaded>>

NextServing ==
    \/ \E t \in Trainers : TrainBegin(t)
    \/ \E t \in Trainers : TrainScale(t)
    \/ \E t \in Trainers : TrainFit(t)
    \/ \E t \in Trainers : TrainSelect(t)
    \/ \E t \in Trainers : TrainStore(t)
    \/ \E t \in Trainers : TrainMark(t)
    \/ \E t \in Predictors : PredictBegin(t)
    \/ \E t \in Predictors : PredictPrepare(t)
    \/ \E t \in Predictors : PredictRun(t)

SpecServing == InitServing /\ [][NextServing]_vars

----------------------------------------------------------------------------
(* The data processor on its own, fed record sets of many shapes. *)

\* Five records to build small loads from: two of one store and SKU on the
\* same day, an earlier one of the same SKU, one of another store and one of
\* another SKU.
StoreStock ==
    <<Rec(3, "S1", "A", Num(5), Num(10), Num(2), "sunny"),
      Rec(1, "S1", "A", Num(7), Num(14), NaN, "rainy"),
      Rec(3, "S1", "A", Num(9), Num(18), Num(2), "sunny"),
      Rec(2, "S2", "A", Num(4), Num(8), Num(3), NoneValue),
      Rec(2, "S1", "B", Num(6), Num(0), NaN, "rainy")>>

\* the longest load built from the stock
MaxLoad == 2

\* every sequence of at most n records of the stock
RECURSIVE LoadsUpTo(_)
LoadsUpTo(n) ==
    IF n = 0 THEN {<<>>}
    ELSE LET shorter == LoadsUpTo(n - 1)
         IN  shorter \cup {Append(t, StoreStock[i]) :
                              t \in {u \in shorter : Len(u) = n - 1},
                              i \in 1..Len(StoreStock)}

\* n daily records of store S1, newest first: every fourth is of SKU B, the
\* others of SKU A; the quantity grows with the day
Series(n) ==
    [i \in 1..n |->
        Rec(n + 1 - i, "S1", IF i % 4 = 0 THEN "B" ELSE "A",
            Num(3 * (n + 1 - i) + 1), Num(6 * (n + 1 - i) + 2), Num(2), "sunny")]

\* 9 records give SKU A 7 observations, 44 give it 33
SeriesLengths == {9, 44}

StoreRecordSets ==
    LoadsUpTo(MaxLoad) \cup {Series(n) : n \in SeriesLengths} \cup {TwelveRecords}

NextStore ==
    \/ \E records \in StoreRecordSets : LoadData(records)
    \/ PreprocessData
    \/ GetStatistics

SpecStore == Init /\ [][NextStore]_vars

----------------------------------------------------------------------------
(* bulk_predict *)

\* the rows bulk_predict hands to predict, whatever their store
StoreSkuDataAnyStore(df, store_id, sku) ==
    [columns |-> df.columns,
     rows |-> SelectSeq(df.rows, LAMBDA r : r.product_id = sku)]

\* Lines 470-473: the rows of the store and SKU; a frame without a store
\* column is filtered by product_id
StoreSkuData(df, store_id, sku) ==
    [columns |-> df.columns,
     rows |-> IF "store" \in Range(df.columns)
              THEN SelectSeq(df.rows, LAMBDA r : r.store = store_id /\ r.sku = sku)
              ELSE SelectSeq(df.rows, LAMBDA r : r.product_id = sku)]

\* Lines 479-486: one entry of results[sku]
BulkEntry(result) ==
    [prediction_date  |-> result.prediction_date,
     predicted_demand |-> result.predicted_demand,
     confidence_lower |-> result.confidence_lower,
     confidence_upper |-> result.confidence_upper,
     model_accuracy   |-> result.model_accuracy]

BulkEntries(results) == [i \in 1..Len(results) |-> BulkEntry(results[i])]

\* results[sku] = entries
Store(results, sku, entries) ==
    [k \in (DOMAIN results) \cup {sku} |-> IF k = sku THEN entries ELSE results[k]]

\* Lines 475-486: results[sku] is set from what predict returned; the
\* predictor is the shared one, so what this call wrote the next call finds.
BulkPut(acc, sku, r) ==
    [p |-> r.p, predictions |-> Store(acc.predictions, sku, BulkEntries(r.results))]

\* Lines 460-486, one pass of the loop: a SKU without rows is skipped
BulkOne(acc, sku, store_sku_data, start_date, end_date) ==
    IF IsEmpty(store_sku_data) THEN acc
    ELSE BulkPut(acc, sku,
                 predict(acc.p, [product_id |-> sku, start_date |-> start_date,
                                 end_date |-> end_date], store_sku_data))

\* Lines 458-486: the loop over skus from position i on
RECURSIVE BulkLoop(_, _, _, _, _, _, _)
BulkLoop(acc, df, store_id, skus, start_date, end_date, i) ==
    IF i > Len(skus) THEN acc
    ELSE BulkLoop(BulkOne(acc, skus[i], StoreSkuData(df, store_id, skus[i]),
                          start_date, end_date),
                  df, store_id, skus, start_date, end_date, i + 1)

\* bulk_predict from the parsed request on.  On a frame without columns the
\* filter raises KeyError and the handler answers 500.
bulk_predict(p, df, store_id, skus, start_date, end_date) ==
    IF df.columns = <<>>
    THEN [p |-> p, ok |-> FALSE, predictions |-> <<>>]
    ELSE [ok |-> TRUE] @@ BulkLoop([p |-> p, predictions |-> <<>>], df, store_id,
                                   skus, start_date, end_date, 1)

BulkStores == {"S1", "S2"}

BulkSkus == {<<"C">>, <<"A", "C">>, <<"C", "B", "C">>}

BulkRequests ==
    [product_id : {""}, start_date : {<<30, 0>>},
     end_date : {<<d, 0>> : d \in 30..(30 + MaxHorizon)}]

\* POST /api/bulk/predict
BulkPredict(store_id, skus, request) ==
    LET r == bulk_predict(predictor, data, store_id, skus,
                          request.start_date, request.end_date)
    IN  /\ predictor' = r.p
        /\ last' = [Outcome("bulk_predict", r.ok, "", <<>>, ~r.ok, FALSE, request)
                        EXCEPT !.bulk = [store_id |-> store_id, skus |-> skus,
                                         predictions |-> r.predictions]]
        /\ UNCHANGED <<data, reloaded, pc, local>>

\* The server with records uploaded (or none) and the predictor trained on
\* some upload (or not at all), answering forecasts.
Uploads == {preprocess_data(load_data(records).data) : records \in RecordSets}

InitForecasting ==
    /\ data \in Uploads
    /\ predictor \in {NewPredictor} \cup
           {train(NewPredictor, df, "main", fit).p : df \in Uploads, fit \in Fits}
    /\ last = NoOutcome("init")
    /\ reloaded = FALSE
    /\ pc = Idle
    /\ local = NoLocal

NextForecasting ==
    \/ \E store_id \in BulkStores, skus \in BulkSkus, request \in BulkRequests :
           BulkPredict(store_id, skus, request)
    \/ \E request \in Requests : Predict(request)

SpecForecasting == InitForecasting /\ [][NextForecasting]_vars

----------------------------------------------------------------------------
(* Properties of the calls run one at a time (Spec) *)

\* the frame holds at least one record of the product
HasRecords(df, product_id) ==
    /\ "product_id" \in Range(df.columns)
    /\ \E k \in 1..Len(df.rows) : df.rows[k].product_id = product_id

\* the calendar days from the day of start_date to the day of end_date
CalendarDays(request) ==
    [i \in 1..(request.end_date[1] - request.start_date[1] + 1) |->
        request.start_date[1] + i - 1]

DaysOf(results) == [i \in 1..Len(results) |-> results[i].prediction_date[1]]

\* C1: every PredictionResult that predict returns has
\* confidence_lower <= predicted_demand <= confidence_upper, whatever the raw
\* output of the model, a negative one clamped to 0 included.
C1_IntervalBracketsForecast ==
    last.op = "predict" =>
        \A i \in 1..Len(last.results) :
            /\ RLe(last.results[i].confidence_lower, last.results[i].predicted_demand)
            /\ RLe(last.results[i].predicted_demand, last.results[i].confidence_upper)

\* C2: a train that succeeds leaves is_trained true, and from then on predict
\* for a product that has loaded records returns exactly one result for each
\* calendar day from start_date to end_date, both included, in date order.
C2_OneResultPerDay ==
    /\ last.op = "train" /\ last.ok => predictor.is_trained
    /\ last.op = "predict" /\ predictor.is_trained
           /\ HasRecords(data, last.request.product_id)
       => DaysOf(last.results) = CalendarDays(last.request)

\* C3: once the records were reloaded after a training, the fitted state is
\* invalid: the trained flag is false and predict returns no forecast until a
\* train succeeds on the new records.
C3_ReloadInvalidates ==
    last.op = "predict" /\ reloaded =>
        /\ ~predictor.is_trained
        /\ last.results = <<>>

\* the encoders a training fits when it starts from none
FreshEncoders(df) ==
    [c \in Range(CategoricalCols) \cap Range(df.columns) |->
        SortedUnique([k \in 1..Len(df.rows) |-> AsStr(df.rows[k][c])])]

\* C4: re-training is a full replace: after a train on a predictor that was
\* already trained, the categorical encoders, the recorded feature columns,
\* the scaler, the models and the metrics are those of this training only.
C4_RetrainReplacesAll ==
    [][predictor.is_trained /\ last'.op = "train" /\ last'.ok =>
          LET cols == SelectSeq(FeatureCols(data'.columns),
                                LAMBDA c : c \in Range(data'.columns))
          IN  /\ predictor'.label_encoders = FreshEncoders(data')
              /\ predictor'.feature_columns = cols
              /\ predictor'.scaler.cols = cols
              /\ \A m \in Range(ModelNames) : predictor'.models[m].cols = cols
              /\ DOMAIN predictor'.model_metrics = Range(ModelNames)]_vars

\* C7: predict is a pure read: a predict call leaves the models, the scaler,
\* the encoders, the recorded feature columns, the active model, the metrics
\* and the stored records as they were.
C7_PredictReadsOnly ==
    [][last'.op = "predict" => predictor' = predictor /\ data' = data]_vars

\* C8 as stated: train on records with fewer than 10 rows that have a target,
\* none at all included, returns the insufficient-data failure, raises nothing
\* and does not mark the predictor trained.
C8_AlwaysInsufficient ==
    [][last'.op = "train" /\ Len(ValidIndices(data)) < MinTrainingRows =>
          /\ ~last'.ok /\ ~last'.raised
          /\ last'.error = ErrInsufficient
          /\ predictor'.is_trained = predictor.is_trained]_vars

\* C8, amended: train on records with fewer than 10 rows that have a target
\* returns a failure, raises nothing and does not mark the predictor trained;
\* the failure is the invalid-data one when the frame is empty or has no
\* target column, and the insufficient-data one otherwise.
C8_FailsWithoutTraining ==
    [][last'.op = "train" /\ Len(ValidIndices(data)) < MinTrainingRows =>
          /\ ~last'.ok /\ ~last'.raised
          /\ last'.error = IF InvalidTrainingData(data) THEN ErrInvalid
                           ELSE ErrInsufficient
          /\ predictor'.is_trained = predictor.is_trained]_vars

\* a train that met 9 rows with a target and refused them
C8_NineRowsRefused ==
    /\ last.op = "train" /\ ~last.ok
    /\ last.error = ErrInsufficient
    /\ Len(ValidIndices(data)) = MinTrainingRows - 1
    /\ ~predictor.is_trained

\* C9: after a train that succeeds the active model has the highest held-out
\* R2 of the bank, and among those that share the highest R2 it is the first
\* in insertion order.
C9_ActiveIsFirstBest ==
    last.op = "train" /\ last.ok =>
        \E i \in 1..Len(ModelNames) :
            /\ predictor.active_model = ModelNames[i]
            /\ \A j \in 1..Len(ModelNames) :
                   predictor.model_metrics[ModelNames[j]].r2
                       <= predictor.model_metrics[ModelNames[i]].r2
            /\ \A j \in 1..(i - 1) :
                   predictor.model_metrics[ModelNames[j]].r2
                       < predictor.model_metrics[ModelNames[i]].r2

\* a train whose two last models tie above the first: the earlier one is active
C9_TieBelowFirst ==
    /\ last.op = "train" /\ last.ok
    /\ predictor.model_metrics["random_forest"].r2
           < predictor.model_metrics["gradient_boosting"].r2
    /\ predictor.model_metrics["gradient_boosting"].r2
           = predictor.model_metrics["linear_regression"].r2
    /\ predictor.active_model = "gradient_boosting"

\* C10: predict before any training has succeeded returns the empty sequence
\* and no exception is raised, to the caller or inside the call, whatever the
\* request and the records.
C10_UntrainedPredictsNothing ==
    last.op = "predict" /\ ~predictor.is_trained =>
        /\ last.results = <<>>
        /\ ~last.raised
        /\ ~last.caught

\* an untrained predict for a product with records and a day in the range
C10_UntrainedWithRecords ==
    /\ last.op = "predict" /\ ~predictor.is_trained
    /\ HasRecords(data, last.request.product_id)
    /\ DateRange(last.request.start_date, last.request.end_date) # <<>>
    /\ last.results = <<>>

\* C11: predict for a product that has no loaded record returns the empty
\* sequence and no exception reaches the caller, whether the predictor is
\* trained or not and whether records are loaded or not.
C11_NoRecordsNoForecast ==
    last.op = "predict" /\ ~HasRecords(data, last.request.product_id) =>
        /\ last.results = <<>>
        /\ ~last.raised

\* a trained predict on the empty frame a failed load left behind: the
\* KeyError is swallowed
C11_TrainedOnEmptyFrame ==
    /\ last.op = "predict" /\ predictor.is_trained
    /\ IsEmpty(data)
    /\ last.caught /\ last.results = <<>>

\* C12: every PredictionResult has predicted_demand >= 0 and
\* confidence_lower >= 0, whatever the active model outputs.
C12_ForecastNotNegative ==
    last.op = "predict" =>
        \A i \in 1..Len(last.results) :
            /\ RLe(Num(0), last.results[i].predicted_demand)
            /\ RLe(Num(0), last.results[i].confidence_lower)

\* a forecast from a negative raw output (its upper bound is below zero)
C12_NegativeRawOutput ==
    /\ last.op = "predict"
    /\ \E i \in 1..Len(last.results) :
           /\ RLt(last.results[i].confidence_upper, Num(0))
           /\ last.results[i].predicted_demand = Num(0)

\* C18: the feature columns built for a forecast day are exactly those the
\* active model was trained on, same set and same order, whatever the loaded
\* records and the order of load, feature building and training.
C18_SameFeatureColumns ==
    last.op = "predict" /\ predictor.is_trained
        /\ HasRecords(data, last.request.product_id)
        /\ DateRange(last.request.start_date, last.request.end_date) # <<>>
    => predictor.feature_columns = predictor.models[predictor.active_model].cols

\* the fields the feature set is to hold, as far as the frame has them
ExpectedFeatures(df) ==
    Range(df.columns) \cap
        (Range(CalendarColumns) \cup Range(LagColumns)
             \cup {"price", "promotion", "promotion_discount", "seasonality_factor",
                   "product_id", "weather_condition"})

\* C19: the feature set handed to the models holds every lag and
\* moving-average column the feature building produced, the calendar fields,
\* price, promotion, promotion_discount and seasonality_factor, the encoded
\* product and the encoded weather condition when present.
C19_FeatureSetComplete ==
    last.op = "train" /\ last.ok =>
        /\ ExpectedFeatures(data) \subseteq Range(predictor.feature_columns)
        /\ \A m \in Range(ModelNames) :
               ExpectedFeatures(data) \subseteq Range(predictor.models[m].cols)

\* the strings of a categorical column of the frame
Categories(df, col) == {AsStr(df.rows[k][col]) : k \in 1..Len(df.rows)}

\* C20: the categorical encoding is stable and keeps a code for the unknown:
\* a category that has a code keeps it in every later encoding, and after a
\* training every category of the training records has a code of its own,
\* different from the one the unseen values are given.
C20_StableCodesReservedUnknown ==
    [][/\ \A col \in DOMAIN predictor.label_encoders :
            \A v \in Range(predictor.label_encoders[col]) :
                /\ col \in DOMAIN predictor'.label_encoders
                /\ v \in Range(predictor'.label_encoders[col])
                /\ CodeOf(predictor'.label_encoders[col], v)
                       = CodeOf(predictor.label_encoders[col], v)
       /\ last'.op = "train" /\ last'.ok =>
              \A col \in Range(CategoricalCols) \cap Range(data.columns) :
                  Categories(data, col)
                      \subseteq Range(predictor'.label_encoders[col]) \ {"unknown"}]_vars

\* the stored record with the date and the four calendar fields of one day
\* in place of its own (or added, where the record has none), everything
\* else as stored
TemplateFor(record, day) ==
    [columns |-> AppendAllNew(data.columns, <<"year", "month", "day_of_week", "quarter">>),
     rows |-> <<[c \in DOMAIN record \cup {"year", "month", "day_of_week", "quarter"} |->
                  IF c = "date" THEN day
                  ELSE IF c = "year" THEN Num(YearOf(day))
                  ELSE IF c = "month" THEN Num(MonthOf(day))
                  ELSE IF c = "day_of_week" THEN Num(DayOfWeek(day))
                  ELSE IF c = "quarter" THEN Num(QuarterOf(day))
                  ELSE record[c]]>>]

\* the raw answer of the active model of fitted for the features of template
RawForecast(fitted, template) ==
    Output(fitted.models[fitted.active_model], prepare_features(fitted, template).X)

\* C22: all forecast days of one predict call are computed from one stored
\* record of the requested product, one with the latest timestamp, in which
\* only the date and the calendar fields are those of the forecast day (so no
\* forecast enters the features of a later day), and the call leaves the
\* stored records as they were.
C22_OneLatestTemplate ==
    [][last'.op = "predict" /\ last'.results # <<>> =>
          /\ data' = data
          /\ \E k \in 1..Len(data.rows) :
                 /\ data.rows[k].product_id = last'.request.product_id
                 /\ \A j \in 1..Len(data.rows) :
                        data.rows[j].product_id = last'.request.product_id
                            => TsLe(data.rows[j].sales_date, data.rows[k].sales_date)
                 /\ \A i \in 1..Len(last'.results) :
                        last'.results[i].confidence_upper =
                            RMul(Rat(11, 10),
                                 RawForecast(predictor',
                                     TemplateFor(data.rows[k],
                                                 last'.results[i].prediction_date)))]_vars

\* two forecast days for product C of the 12 records, whose oldest and latest
\* record differ in price
C22_TwoDaysFromTwelveRecords ==
    /\ last.op = "predict"
    /\ last.loaded = TwelveRecords
    /\ last.request.product_id = "C"
    /\ Len(last.results) = 2
    /\ last.results[1].prediction_date # last.results[2].prediction_date
    /\ last.results[1].confidence_upper # last.results[2].confidence_upper

\* C23: a train call that returns an error leaves the predictor as it was
\* before the call: is_trained, the active model, the metrics, the fitted
\* models, the scaler, the encoders and the recorded feature columns.
C23_FailedTrainChangesNothing ==
    [][last'.op = "train" /\ ~last'.ok => predictor' = predictor]_vars

----------------------------------------------------------------------------
(* Properties of the data processor (SpecStore) *)

\* the timestamps of a sequence of records
Timestamps(records) == {records[k].sales_date : k \in 1..Len(records)}

\* C13 as stated: after any sequence of loads, get_statistics describes the
\* N records of the most recent load, for every N: total_records is N and the
\* date range runs from their earliest to their latest timestamp.
C13_StatisticsOfAnyLoad ==
    last.op = "get_statistics" /\ reloaded =>
        /\ "total_records" \in DOMAIN last.stats
        /\ last.stats.total_records = Len(last.loaded)
        /\ \A t \in Timestamps(last.loaded) :
               /\ TsLe(last.stats.date_range.start, t)
               /\ TsLe(t, last.stats.date_range.end)

\* C13, amended: after any sequence of loads, get_statistics describes the N
\* records of the most recent load when N >= 1 (total_records is N, the date
\* range runs from their earliest to their latest timestamp, nothing is kept
\* from earlier loads); after a load of no records it returns the empty mapping.
C13_StatisticsOfLastLoad ==
    last.op = "get_statistics" /\ reloaded =>
        IF last.loaded = <<>> THEN last.stats = <<>>
        ELSE /\ last.stats.total_records = Len(last.loaded)
             /\ last.stats.date_range.start \in Timestamps(last.loaded)
             /\ last.stats.date_range.end \in Timestamps(last.loaded)
             /\ \A t \in Timestamps(last.loaded) :
                    /\ TsLe(last.stats.date_range.start, t)
                    /\ TsLe(t, last.stats.date_range.end)

\* statistics of a two-record load given newest first
C13_TwoRecordsNewestFirst ==
    /\ last.op = "get_statistics" /\ reloaded
    /\ Len(last.loaded) = 2
    /\ last.loaded[1].sales_date[1] > last.loaded[2].sales_date[1]
    /\ last.stats.total_records = 2
    /\ last.stats.date_range.start = last.loaded[2].sales_date

\* the feature building has run on the frame
HasLagColumns(df) == "sold_qty_lag_1" \in Range(df.columns)

\* the stores and SKUs of a frame
Entities(df) == {<<df.rows[k].store, df.rows[k].sku>> : k \in 1..Len(df.rows)}

\* the rows of one store and SKU, in frame order
Observations(df, e) == SelectSeq(df.rows, LAMBDA r : r.store = e[1] /\ r.sku = e[2])

LagColumnOf(k) ==
    CASE k = 1 -> "sold_qty_lag_1" [] k = 7 -> "sold_qty_lag_7" [] k = 30 -> "sold_qty_lag_30"

\* C14: after feature building, for every store and SKU the observations
\* stand in chronological order, all those loaded and no others, and for every
\* lag k in {1, 7, 30} the lag feature of the i-th observation is the quantity
\* of the (i-k)-th, null when there is none; rows of other entities do not
\* shift the index.
C14_LagIsEarlierObservation ==
    HasLagColumns(data) =>
        \A e \in Entities(data) :
            LET obs == Observations(data, e)
            IN  /\ Len(obs) = Len(SelectSeq(last.loaded,
                                 LAMBDA r : r.store = e[1] /\ r.sku = e[2]))
                /\ \A i \in 1..(Len(obs) - 1) :
                       TsLe(obs[i].sales_date, obs[i + 1].sales_date)
                /\ \A i \in 1..Len(obs) : \A k \in {1, 7, 30} :
                       obs[i][LagColumnOf(k)] =
                           IF i - k >= 1 THEN obs[i - k].sold_qty ELSE NaN

\* the features of the 44-record series: the 30-day lag of SKU A is set on
\* its last observations, with rows of SKU B in between
C14_ThirtyDayLagSet ==
    /\ HasLagColumns(data)
    /\ Len(data.rows) = 44
    /\ Cardinality(Entities(data)) = 2
    /\ \E k \in 1..Len(data.rows) :
           /\ data.rows[k].sku = "A"
           /\ data.rows[k].sold_qty_lag_30 = Num(3 * (data.rows[k].sales_date[1] - 40) + 1)

\* C15: after feature building, for every store and SKU the 7-observation
\* moving average at the i-th observation (counted from 0) is the arithmetic
\* mean of the quantities at positions i-6..i when i >= 6, and null when i < 6.
C15_MovingAverageOfSeven ==
    HasLagColumns(data) =>
        \A e \in Entities(data) :
            LET obs == Observations(data, e)
            IN  \A i \in 1..Len(obs) :
                    obs[i].sold_qty_ma_7 =
                        IF i < 7 THEN NaN
                        ELSE RDiv(RSum([j \in 1..7 |-> obs[i - 7 + j].sold_qty]), Num(7))

\* the features of the 9-record series: SKU A has exactly 7 observations and
\* the last one carries the average of all 7
C15_SeventhObservation ==
    /\ HasLagColumns(data)
    /\ Len(data.rows) = 9
    /\ LET obs == Observations(data, <<"S1", "A">>)
       IN  /\ Len(obs) = 7
           /\ ~IsNaN(obs[7].sold_qty_ma_7)
           /\ IsNaN(obs[6].sold_qty_ma_7)

\* a is strictly earlier than b
TsLt(a, b) == TsLe(a, b) /\ a # b

\* C16: every non-null lag feature of a row holds the quantity of a record of
\* the same store and SKU whose timestamp is strictly earlier than the row's,
\* also when an entity has several records with the same timestamp.
C16_LagFromStrictlyEarlier ==
    HasLagColumns(data) =>
        \A k \in 1..Len(data.rows) : \A lag \in {1, 7, 30} :
            LET v == data.rows[k][LagColumnOf(lag)]
            IN  ~IsNaN(v) =>
                    \E j \in 1..Len(data.rows) :
                        /\ data.rows[j].store = data.rows[k].store
                        /\ data.rows[j].sku = data.rows[k].sku
                        /\ TsLt(data.rows[j].sales_date, data.rows[k].sales_date)
                        /\ data.rows[j].sold_qty = v

\* C21: a missing price is filled in two steps: a row without price and with
\* a quantity other than zero gets act_sales / sold_qty; a row without price
\* and with quantity zero gets the median of the price column of the whole
\* frame as the first step left it; a row that has a price keeps it.
C21_PriceFilledInTwoSteps ==
    [][last'.op = "preprocess_data" /\ ~IsEmpty(data) =>
          LET n == Len(data.rows)
              first == [k \in 1..n |->
                          IF ~IsNaN(data.rows[k].price) THEN data.rows[k].price
                          ELSE IF IsNaN(data.rows[k].sold_qty)
                                  \/ IsNaN(data.rows[k].act_sales)
                                  \/ data.rows[k].sold_qty = Num(0)
                          THEN NaN
                          ELSE RDiv(data.rows[k].act_sales, data.rows[k].sold_qty)]
          IN  /\ Len(data'.rows) = n
              /\ \A k \in 1..n :
                     data'.rows[k].price =
                         IF IsNaN(first[k]) THEN Median(first) ELSE first[k]]_vars

\* the 12 records after feature building: the record with quantity 0 and no
\* price has the median 6 of the column in which two other missing prices
\* were derived as 5; a derived price 5 and a given price 12 are there too
C21_ZeroQuantityGetsMedian ==
    /\ last.op = "preprocess_data"
    /\ last.loaded = TwelveRecords
    /\ \E k \in 1..Len(data.rows) :
           /\ data.rows[k].sold_qty = Num(0)
           /\ data.rows[k].price = Num(6)
    /\ \E k \in 1..Len(data.rows) :
           /\ data.rows[k].sold_qty = Num(4)
           /\ data.rows[k].price = Num(5)
    /\ \E k \in 1..Len(data.rows) :
           /\ data.rows[k].sold_qty = Num(11)
           /\ data.rows[k].price = Num(12)

----------------------------------------------------------------------------
(* Properties of the bulk forecast (SpecForecasting) *)

\* what the single-entity predict returns for one SKU of a bulk request, as
\* entries of the bulk result
SingleForecast(p, df, sku, request) ==
    BulkEntries(predict(p, [product_id |-> sku, start_date |-> request.start_date,
                            end_date |-> request.end_date], df).results)

\* C17 as stated: for every requested SKU the list the bulk result holds under
\* it is what predict returns for that SKU and date range on the loaded
\* records, whatever other SKUs the request names.
C17_BulkIsSingle ==
    [][last'.op = "bulk_predict" /\ last'.ok =>
          \A sku \in DOMAIN last'.bulk.predictions :
              last'.bulk.predictions[sku] =
                  SingleForecast(predictor, data, sku, last'.request)]_vars

\* C17, amended: for every requested SKU that has records in the requested
\* store, the list the bulk result holds under it is what predict returns for
\* that SKU and date range on the loaded records of that store and SKU,
\* whatever other SKUs the request names; a SKU without records in the store
\* has no entry.
C17_BulkIsSingleWithinStore ==
    [][last'.op = "bulk_predict" /\ last'.ok =>
          \A i \in 1..Len(last'.bulk.skus) :
              LET sku == last'.bulk.skus[i]
                  own == [columns |-> data.columns,
                          rows |-> SelectSeq(data.rows,
                                     LAMBDA r : r.store = last'.bulk.store_id
                                                   /\ r.sku = sku)]
              IN  IF own.rows = <<>>
                  THEN sku \notin DOMAIN last'.bulk.predictions
                  ELSE /\ sku \in DOMAIN last'.bulk.predictions
                       /\ last'.bulk.predictions[sku] =
                              SingleForecast(predictor, own, sku, last'.request)]_vars

\* a bulk forecast of two SKUs of which the second, sold in both stores, got
\* forecasts, after the first one had gone through the shared predictor
C17_SecondSkuForecast ==
    /\ last.op = "bulk_predict" /\ last.ok
    /\ Len(last.bulk.skus) >= 2
    /\ last.bulk.store_id = "S2"
    /\ DOMAIN last.bulk.predictions = {"B", "C"}
    /\ last.bulk.predictions["C"] # <<>>

----------------------------------------------------------------------------
(* Properties of the calls on concurrent threads (SpecServing) *)

\* C5: a predict that runs while a training runs never sees a half-updated
\* fitted state: the model, the scaler and the metrics behind each forecast
\* are all those of one training call.
C5_ReadsOneTraining ==
    last.op = "predict" =>
        \A i \in 1..Len(last.results) :
            /\ last.results[i].read_from.model = last.results[i].read_from.scaler
            /\ last.results[i].read_from.model = last.results[i].read_from.metrics

\* C6: at most one training call at a time is in the middle of its writes to
\* the scaler, the models, the active model and the metrics.
C6_OneTrainingWrites ==
    \A t, u \in Trainers :
        pc[t] \in Training /\ pc[u] \in Training => t = u

====
